---- MODULE Spec2Model ----
(***************************************************************************)
(* Model of mac_notifications: the NotificationManager (caller thread),    *)
(* the CallbackExecutorThread (drain thread), the module-level registry    *)
(* (_FIFO_LIST, _NOTIFICATION_MAP) and the NotificationProcess (listener). *)
(* Every read and write of the registry is a step of its own, so that the  *)
(* caller thread and the drain thread interleave as they do under the GIL. *)
(* Steps that touch only thread-local state are joined to the registry     *)
(* access that follows them.                                               *)
(***************************************************************************)
EXTENDS Integers, Sequences, FiniteSets, TLC

(* ------------------------------ bounds -------------------------------- *)
\* number of create_notification calls explored
MaxCreates == 3
\* number of activation events the listener sends
MaxEvents == 2
\* number of cleanup calls in a row
MaxCleanups == 2
\* number of cancel calls (SpecCancel only)
MaxCancels == 1
\* number of inputs in a run: create calls, cancel calls and activation events
MaxInputs == 4

\* values explored for _MAX_NUMBER_OF_CALLBACKS_TO_TRACK (manager.py 23 sets 1000)
Capacities == {1, 2}
Uids == {"A", "B"}
Texts == {"yes", "no"}
NoUid == "-"
NoCfg == [uid |-> NoUid, action_callback |-> FALSE, reply_callback |-> FALSE, n |-> 0]
NoOrigin == [ev |-> 0, activation_type |-> 0, response |-> ""]
NoMsg == <<NoUid, "", "", NoOrigin>>

VARIABLES
    capacity,                  \* _MAX_NUMBER_OF_CALLBACKS_TO_TRACK
    FIFO_LIST,                 \* _FIFO_LIST: list of uids
    NOTIFICATION_MAP,          \* _NOTIFICATION_MAP: dict, in its insertion order
    parent_pipe_end,           \* "None" | "open"
    child_pipe_end,            \* "None" | "open"
    callback_listener_process, \* "None" | "process"
    callback_executor_thread,  \* "None" | "thread"
    to_child,                  \* messages caller -> listener, in flight
    to_parent,                 \* activation tuples listener -> caller, in flight
    cpc, c_op, c_cfg, c_x,     \* caller thread: position, operation, locals
    cerr,                      \* exception raised by the caller's last operation
    dpc, d_msg, d_cfg, d_x,    \* drain thread: position, locals
    dexc,                      \* exception that ended the drain thread
    lpc,                       \* listener's forwarding thread: "none" | "recv" | "exited" | "dead"
    displayed,                 \* uids the backend has been asked to display
    created, sent,             \* counters of create calls made / activation events sent
    fired,                     \* log of callback invocations
    evicted,                   \* creation numbers of configs dropped by eviction
    cleanups,                  \* cleanup calls returned since the last create
    cancelled, cancels,        \* uids whose cancel() returned; cancel calls made
    late,                      \* events that were in the channel when cancel() was called
    live_processes,            \* listener processes started and not yet killed
    live_threads,              \* drain threads started whose run() has not ended
    cleaned                    \* value of `created` when the last cleanup returned

vars == <<capacity, FIFO_LIST, NOTIFICATION_MAP, parent_pipe_end, child_pipe_end,
          callback_listener_process, callback_executor_thread, to_child, to_parent,
          cpc, c_op, c_cfg, c_x, cerr, dpc, d_msg, d_cfg, d_x, dexc, lpc, displayed,
          created, sent, fired, evicted, cleanups, cancelled, cancels, late,
          live_processes, live_threads, cleaned>>

registry == <<FIFO_LIST, NOTIFICATION_MAP>>
manager == <<parent_pipe_end, child_pipe_end, callback_listener_process,
             callback_executor_thread, live_processes>>
channels == <<to_child, to_parent>>
callerLocals == <<cpc, c_op, c_cfg, c_x, cerr>>
drainLocals == <<dpc, d_msg, d_cfg, d_x, dexc, live_threads>>
listener == <<lpc, displayed>>
counters == <<capacity, created, sent>>
ghosts == <<fired, evicted, cleanups, cancelled, cancels, late, cleaned>>

(* --------------------------- dict and list ----------------------------- *)
RECURSIVE ListRemove(_, _)
\* list.remove(x): drops the first occurrence
ListRemove(l, x) ==
    IF l = <<>> THEN <<>>
    ELSE IF Head(l) = x THEN Tail(l)
    ELSE <<Head(l)>> \o ListRemove(Tail(l), x)

InList(l, x) == \E i \in 1..Len(l) : l[i] = x
ListSet(l) == {l[i] : i \in 1..Len(l)}

MapKeys(m) == {m[i].uid : i \in 1..Len(m)}
InMap(m, u) == u \in MapKeys(m)
MapGet(m, u) == m[CHOOSE i \in 1..Len(m) : m[i].uid = u]
\* a pop that leaves the entry in place (the faulty variant MapPop is compared with)
MapPopNothing(m, u) == m
\* dict.pop(u)
MapPop(m, u) == SelectSeq(m, LAMBDA c : c.uid # u)
\* dict[u] = cfg: a new key goes last, an existing key keeps its place
MapSet(m, cfg) ==
    IF InMap(m, cfg.uid)
    THEN [i \in 1..Len(m) |-> IF m[i].uid = cfg.uid THEN cfg ELSE m[i]]
    ELSE Append(m, cfg)

\* the inputs made so far
Inputs == created + sent + cancels

\* Thread.is_alive()
ThreadAlive == dpc \notin {"none", "exited", "dead"}

Init ==
    /\ capacity \in Capacities
    /\ FIFO_LIST = <<>>
    /\ NOTIFICATION_MAP = <<>>
    /\ parent_pipe_end = "None"
    /\ child_pipe_end = "None"
    /\ callback_listener_process = "None"
    /\ callback_executor_thread = "None"
    /\ to_child = <<>>
    /\ to_parent = <<>>
    /\ cpc = "idle" /\ c_op = "none" /\ c_cfg = NoCfg /\ c_x = NoUid /\ cerr = "none"
    /\ dpc = "none" /\ d_msg = NoMsg /\ d_cfg = NoCfg /\ d_x = NoUid /\ dexc = "none"
    /\ lpc = "none"
    /\ displayed = {}
    /\ created = 0 /\ sent = 0
    /\ fired = <<>>
    /\ evicted = {}
    /\ cleanups = 0
    /\ cancelled = {}
    /\ cancels = 0
    /\ late = {}
    /\ live_processes = 0
    /\ live_threads = 0
    /\ cleaned = 0

(* ------------------- NotificationManager (caller thread) --------------- *)
CallerReturn ==
    /\ cpc' = "idle" /\ c_op' = "none" /\ c_cfg' = NoCfg /\ c_x' = NoUid

CallerRaise(exc) ==
    /\ CallerReturn
    /\ cerr' = exc

\* manager.py 51-57: a thread is created unless one is alive
create_callback_executor_thread ==
    IF callback_executor_thread = "thread" /\ ThreadAlive
    THEN UNCHANGED <<callback_executor_thread, drainLocals>>
    ELSE /\ callback_executor_thread' = "thread"
         /\ live_threads' = live_threads + 1
         /\ dpc' = "poll" /\ dexc' = "none"
         /\ d_msg' = NoMsg /\ d_cfg' = NoCfg /\ d_x' = NoUid

\* a start condition that holds on every call (the faulty variant of NeedsStart)
AlwaysStart == TRUE
\* a start condition that holds on the first call only (the faulty variant of
\* NeedsStart)
StartOnlyOnce == created = 0
\* manager.py 65: "if not self._callback_listener_process"
NeedsStart == callback_listener_process = "None"

\* manager.py 64-74: lazy start of pipe, listener process and drain thread; the
\* display request is sent (a step that touches no registry state) and the uid is
\* appended to _FIFO_LIST, whatever callbacks the config carries
CreateNotification(cfg) ==
    /\ cpc = "idle"
    /\ created < MaxCreates /\ Inputs < MaxInputs
    /\ cfg.n = created + 1
    /\ created' = created + 1
    /\ IF NeedsStart
       THEN /\ parent_pipe_end' = "open"
            /\ child_pipe_end' = "open"
            /\ callback_listener_process' = "process"
            /\ live_processes' = live_processes + 1
            /\ lpc' = "recv"
            /\ create_callback_executor_thread
            /\ to_parent' = <<>>
            /\ to_child' = <<[kind |-> "display", uid |-> cfg.uid]>>
       ELSE /\ UNCHANGED <<manager, lpc, drainLocals, to_parent>>
            /\ to_child' = Append(to_child, [kind |-> "display", uid |-> cfg.uid])
    /\ FIFO_LIST' = Append(FIFO_LIST, cfg.uid)
    /\ cpc' = "setmap" /\ c_op' = "create" /\ c_cfg' = cfg /\ c_x' = NoUid
    /\ cerr' = "none"
    /\ cleanups' = 0
    /\ cancelled' = cancelled \ {cfg.uid}
    /\ UNCHANGED <<capacity, sent, NOTIFICATION_MAP, displayed, fired, evicted, cancels,
                   late, cleaned>>

\* manager.py 75
CreateSetMap ==
    /\ cpc = "setmap"
    /\ NOTIFICATION_MAP' = MapSet(NOTIFICATION_MAP, c_cfg)
    /\ cpc' = "while"
    /\ UNCHANGED <<FIFO_LIST, manager, channels, c_op, c_cfg, c_x, cerr,
                   drainLocals, listener, counters, ghosts>>

\* a loop condition that tolerates one entry too many (the faulty variant of
\* OverCapacity)
OverCapacityOffByOne == Len(FIFO_LIST) > capacity + 1
\* manager.py 81: the loop condition of clear_old_notifications
OverCapacity == Len(FIFO_LIST) > capacity

\* manager.py 81: the loop test; the call returns when it fails
ClearOldTest ==
    /\ cpc = "while"
    /\ IF OverCapacity
       THEN cpc' = "pop" /\ UNCHANGED <<c_op, c_cfg, c_x>>
       ELSE CallerReturn
    /\ UNCHANGED <<registry, manager, channels, cerr, drainLocals, listener,
                   counters, ghosts>>

\* manager.py 82: _FIFO_LIST.pop(0)
ClearOldPop ==
    /\ cpc = "pop"
    /\ IF FIFO_LIST = <<>>
       THEN /\ CallerRaise("IndexError")
            /\ UNCHANGED FIFO_LIST
       ELSE /\ c_x' = Head(FIFO_LIST)
            /\ FIFO_LIST' = Tail(FIFO_LIST)
            /\ cpc' = "k_in_map"
            /\ UNCHANGED <<c_op, c_cfg, cerr>>
    /\ UNCHANGED <<NOTIFICATION_MAP, manager, channels, drainLocals, listener,
                   counters, ghosts>>

\* manager.py 171, on the caller thread
CallerInMap ==
    /\ cpc = "k_in_map"
    /\ cpc' = IF InMap(NOTIFICATION_MAP, c_x) THEN "k_pop_map" ELSE "k_in_fifo"
    /\ UNCHANGED <<registry, manager, channels, c_op, c_cfg, c_x, cerr,
                   drainLocals, listener, counters, ghosts>>

\* manager.py 172, on the caller thread
CallerPopMap ==
    /\ cpc = "k_pop_map"
    /\ IF InMap(NOTIFICATION_MAP, c_x)
       THEN /\ NOTIFICATION_MAP' = MapPop(NOTIFICATION_MAP, c_x)
            /\ evicted' = IF c_op = "create"
                          THEN evicted \cup {MapGet(NOTIFICATION_MAP, c_x).n}
                          ELSE evicted
            /\ cpc' = "k_in_fifo"
            /\ UNCHANGED <<c_op, c_cfg, c_x, cerr>>
       ELSE /\ CallerRaise("KeyError")
            /\ UNCHANGED <<NOTIFICATION_MAP, evicted>>
    /\ UNCHANGED <<FIFO_LIST, manager, channels, drainLocals, listener, counters,
                   fired, cleanups, cancelled, cancels, late, cleaned>>

\* the caller's return from clear_notification_from_existence: back to the loop of
\* clear_old_notifications, or out of cancel()
CallerAfterClear ==
    IF c_op = "create"
    THEN cpc' = "while" /\ c_x' = NoUid /\ UNCHANGED <<c_op, c_cfg, cancelled>>
    ELSE CallerReturn /\ cancelled' = cancelled \cup {c_x}

\* manager.py 173, on the caller thread
CallerInFifo ==
    /\ cpc = "k_in_fifo"
    /\ IF InList(FIFO_LIST, c_x)
       THEN cpc' = "k_remove" /\ UNCHANGED <<c_op, c_cfg, c_x, cancelled>>
       ELSE CallerAfterClear
    /\ UNCHANGED <<registry, manager, channels, cerr, drainLocals, listener,
                   counters, fired, evicted, cleanups, cancels, late, cleaned>>

\* manager.py 174, on the caller thread
CallerRemove ==
    /\ cpc = "k_remove"
    /\ IF InList(FIFO_LIST, c_x)
       THEN /\ FIFO_LIST' = ListRemove(FIFO_LIST, c_x)
            /\ CallerAfterClear
            /\ UNCHANGED cerr
       ELSE /\ CallerRaise("ValueError_remove")
            /\ UNCHANGED <<FIFO_LIST, cancelled>>
    /\ UNCHANGED <<NOTIFICATION_MAP, manager, channels, drainLocals, listener,
                   counters, fired, evicted, cleanups, cancels, late, cleaned>>

\* manager.py 100-105: both pipe ends are closed; what was in flight is lost
CleanupClose ==
    /\ cpc = "idle"
    /\ cleanups < MaxCleanups
    /\ parent_pipe_end' = "None"
    /\ child_pipe_end' = "None"
    /\ to_parent' = <<>>
    /\ cpc' = "kill" /\ c_op' = "cleanup" /\ cerr' = "none"
    /\ UNCHANGED <<registry, callback_listener_process, callback_executor_thread,
                   live_processes, to_child, c_cfg, c_x, drainLocals, listener,
                   counters, ghosts>>

\* manager.py 106-108: the listener process is killed
CleanupKill ==
    /\ cpc = "kill"
    /\ callback_listener_process' = "None"
    /\ live_processes' = IF callback_listener_process = "process"
                          THEN live_processes - 1 ELSE live_processes
    /\ lpc' = "none"
    /\ to_child' = <<>>
    /\ cpc' = "join"
    /\ UNCHANGED <<registry, parent_pipe_end, child_pipe_end, callback_executor_thread,
                   to_parent, c_op, c_cfg, c_x, cerr, drainLocals, displayed,
                   counters, ghosts>>

\* a cleanup that forgets to clear the list (the faulty variant of FifoCleared)
FifoKept == FIFO_LIST
\* manager.py 113: _FIFO_LIST.clear()
FifoCleared == <<>>

\* a cleanup that forgets to clear the map (the faulty variant of MapCleared)
MapKept == NOTIFICATION_MAP
\* manager.py 112: _NOTIFICATION_MAP.clear()
MapCleared == <<>>

\* manager.py 109-113: join returns once the thread has ended; the registry is cleared
CleanupJoin ==
    /\ cpc = "join"
    /\ callback_executor_thread = "None" \/ ~ThreadAlive
    /\ callback_executor_thread' = "None"
    /\ dpc' = "none" /\ dexc' = "none"
    /\ NOTIFICATION_MAP' = MapCleared
    /\ FIFO_LIST' = FifoCleared
    /\ CallerReturn
    /\ cleanups' = cleanups + 1
    /\ cleaned' = created
    /\ UNCHANGED <<parent_pipe_end, child_pipe_end, callback_listener_process,
                   live_processes, channels, cerr, d_msg, d_cfg, d_x, live_threads,
                   listener, counters, fired, evicted, cancelled, cancels, late>>

(* ------------------- CallbackExecutorThread (drain thread) ------------- *)
\* a dispatch that knows a third event id (the faulty variant of EventIds)
EventIdsWithOther == {"action_button_clicked", "reply_button_clicked", "other"}
\* manager.py 149, 156: the event ids drain_queue dispatches on
EventIds == {"action_button_clicked", "reply_button_clicked"}

DrainDie(exc) ==
    /\ dpc' = "dead" /\ dexc' = exc
    /\ live_threads' = live_threads - 1
    /\ d_msg' = NoMsg /\ d_cfg' = NoCfg /\ d_x' = NoUid

DrainContinue ==
    /\ dpc' = "poll" /\ d_msg' = NoMsg /\ d_cfg' = NoCfg /\ d_x' = NoUid
    /\ UNCHANGED <<dexc, live_threads>>

\* a closed pipe that poll() never notices (the faulty variant of PipeClosed)
PipeNeverClosed == FALSE
\* manager.py 137-143: poll() or recv() on the closed connection raises OSError or
\* EOFError
PipeClosed == parent_pipe_end # "open"

\* manager.py 125-127, 136-143: a closed pipe ends the thread without an exception
DrainExit ==
    /\ dpc = "poll"
    /\ PipeClosed
    /\ dpc' = "exited"
    /\ live_threads' = live_threads - 1
    /\ UNCHANGED <<registry, manager, channels, callerLocals, d_msg, d_cfg, d_x, dexc,
                   listener, counters, ghosts>>

\* a pipe that hands out the newest message first (the faulty variant of Recv)
RecvNewest(q) == [msg |-> q[Len(q)], rest |-> SubSeq(q, 1, Len(q) - 1)]
\* manager.py 139: Connection.recv() takes the oldest message out of the pipe
Recv(q) == [msg |-> Head(q), rest |-> Tail(q)]

\* a membership test that takes every uid for a registered one (the faulty variant
\* of Known)
KnownAlways(uid) == TRUE
\* manager.py 145: "notification_uid not in _NOTIFICATION_MAP", negated
Known(uid) == InMap(NOTIFICATION_MAP, uid)

\* manager.py 137-139, 144-149, 156, 163-164: poll() is true, recv() yields a
\* message; an unknown uid is skipped and an unknown event_id raises
DrainRecv ==
    /\ dpc = "poll"
    /\ parent_pipe_end = "open"
    /\ to_parent # <<>>
    /\ to_parent' = Recv(to_parent).rest
    /\ LET msg == Recv(to_parent).msg IN
       IF ~Known(msg[1])
       THEN UNCHANGED drainLocals
       ELSE IF msg[2] \in EventIds
            THEN dpc' = "pop" /\ d_msg' = msg /\ UNCHANGED <<d_cfg, d_x, dexc, live_threads>>
            ELSE DrainDie("ValueError_event_id")
    /\ UNCHANGED <<registry, manager, to_child, callerLocals, listener, counters, ghosts>>

\* a dispatch that passes the event id where the reply text belongs (the faulty
\* variant of CallbackOf)
CallbackOfEventId(msg) ==
    IF msg[2] = "action_button_clicked"
    THEN [kind |-> "action", arg |-> "()"]
    ELSE [kind |-> "reply", arg |-> msg[2]]

\* manager.py 149-162: the callback the event selects and the argument of the call
CallbackOf(msg) ==
    IF msg[2] = "action_button_clicked"
    THEN [kind |-> "action", arg |-> "()"]
    ELSE [kind |-> "reply", arg |-> msg[3]]

\* a test that is satisfied by a callback of either kind (the faulty variant of
\* HasCallback)
HasCallbackAny(cfg, kind) == cfg.action_callback \/ cfg.reply_callback
\* manager.py 152, 159: "... is None"
HasCallback(cfg, kind) ==
    IF kind = "action" THEN cfg.action_callback ELSE cfg.reply_callback

\* manager.py 150-155, 157-162: _NOTIFICATION_MAP.pop(notification_uid); a missing
\* callback raises, otherwise the callback is called
DrainPop ==
    /\ dpc = "pop"
    /\ IF InMap(NOTIFICATION_MAP, d_msg[1])
       THEN LET cfg == MapGet(NOTIFICATION_MAP, d_msg[1])
                cb == CallbackOf(d_msg)
            IN  /\ NOTIFICATION_MAP' = MapPop(NOTIFICATION_MAP, d_msg[1])
                /\ IF HasCallback(cfg, cb.kind)
                   THEN /\ fired' = Append(fired, [n |-> cfg.n, uid |-> cfg.uid,
                                                   kind |-> cb.kind, arg |-> cb.arg,
                                                   origin |-> d_msg[4]])
                        /\ dpc' = "in_callback" /\ d_cfg' = cfg
                        /\ UNCHANGED <<d_msg, d_x, dexc, live_threads>>
                   ELSE /\ DrainDie("ValueError_callback")
                        /\ UNCHANGED fired
       ELSE /\ DrainDie("KeyError")
            /\ UNCHANGED <<NOTIFICATION_MAP, fired>>
    /\ UNCHANGED <<FIFO_LIST, manager, channels, callerLocals, listener, counters,
                   evicted, cleanups, cancelled, cancels, late, cleaned>>

\* the user callback returns; manager.py 165, 171: clear_notification_from_existence
\* tests the map
DrainCallbackReturns ==
    /\ dpc = "in_callback"
    /\ dpc' = IF InMap(NOTIFICATION_MAP, d_msg[1]) THEN "k_pop_map" ELSE "k_in_fifo"
    /\ d_x' = d_msg[1]
    /\ UNCHANGED <<registry, manager, channels, callerLocals, d_msg, d_cfg, dexc,
                   live_threads, listener, counters, ghosts>>

\* the user callback raises: nothing in drain_queue or run catches it
DrainCallbackRaises ==
    /\ dpc = "in_callback"
    /\ DrainDie("CallbackError")
    /\ UNCHANGED <<registry, manager, channels, callerLocals, listener, counters, ghosts>>

\* manager.py 172, on the drain thread
DrainPopMap ==
    /\ dpc = "k_pop_map"
    /\ IF InMap(NOTIFICATION_MAP, d_x)
       THEN /\ NOTIFICATION_MAP' = MapPop(NOTIFICATION_MAP, d_x)
            /\ dpc' = "k_in_fifo"
            /\ UNCHANGED <<d_msg, d_cfg, d_x, dexc, live_threads>>
       ELSE /\ DrainDie("KeyError")
            /\ UNCHANGED NOTIFICATION_MAP
    /\ UNCHANGED <<FIFO_LIST, manager, channels, callerLocals, listener, counters, ghosts>>

\* manager.py 173, on the drain thread
DrainInFifo ==
    /\ dpc = "k_in_fifo"
    /\ IF InList(FIFO_LIST, d_x)
       THEN dpc' = "k_remove" /\ UNCHANGED <<d_msg, d_cfg, d_x, dexc, live_threads>>
       ELSE DrainContinue
    /\ UNCHANGED <<registry, manager, channels, callerLocals, listener, counters, ghosts>>

\* manager.py 174, on the drain thread
DrainRemove ==
    /\ dpc = "k_remove"
    /\ IF InList(FIFO_LIST, d_x)
       THEN /\ FIFO_LIST' = ListRemove(FIFO_LIST, d_x)
            /\ DrainContinue
       ELSE /\ DrainDie("ValueError_remove")
            /\ UNCHANGED FIFO_LIST
    /\ UNCHANGED <<NOTIFICATION_MAP, manager, channels, callerLocals, listener,
                   counters, ghosts>>

(* ------------------- NotificationProcess (listener) -------------------- *)
\* listener_process.py 31-33: a display request reaches the backend
ForwardDisplay ==
    /\ lpc = "recv"
    /\ to_child # <<>>
    /\ Head(to_child).kind = "display"
    /\ displayed' = displayed \cup {Head(to_child).uid}
    /\ to_child' = Tail(to_child)
    /\ UNCHANGED <<registry, manager, to_parent, callerLocals, drainLocals, lpc,
                   counters, ghosts>>

\* listener_process.py 34-35: notification_sender has no cancel_notification, the
\* attribute lookup raises and only EOFError is caught
ForwardCancel ==
    /\ lpc = "recv"
    /\ to_child # <<>>
    /\ Head(to_child).kind = "cancel"
    /\ lpc' = "dead"
    /\ to_child' = Tail(to_child)
    /\ UNCHANGED <<registry, manager, to_parent, callerLocals, drainLocals, displayed,
                   counters, ghosts>>

\* listener_process.py 36-37: end of stream ends the forwarding thread silently
ForwardEOF ==
    /\ lpc = "recv"
    /\ parent_pipe_end # "open"
    /\ to_child = <<>>
    /\ lpc' = "exited"
    /\ UNCHANGED <<registry, manager, channels, callerLocals, drainLocals, displayed,
                   counters, ghosts>>

\* notification_sender.py 102-106: the tuple built for an activation type
Activation(u, activation_type, response) ==
    IF activation_type = 2
    THEN <<u, "action_button_clicked", "">>
    ELSE <<u, "reply_button_clicked", response>>

\* notification_sender.py 93-106 and listener_process.py 39-40: a user interaction
\* of activation type 2 or 3 is sent to the caller; type 1 sends nothing
UserActivate(u, activation_type, response) ==
    /\ callback_listener_process = "process"
    /\ lpc # "none"
    /\ u \in displayed
    /\ sent < MaxEvents /\ Inputs < MaxInputs
    /\ sent' = IF activation_type = 1 THEN sent ELSE sent + 1
    /\ to_parent' =
         IF parent_pipe_end # "open" \/ activation_type = 1 THEN to_parent
         ELSE LET a == Activation(u, activation_type, response)
                  origin == [ev |-> sent + 1, activation_type |-> activation_type,
                             response |-> response]
              IN  Append(to_parent, <<a[1], a[2], a[3], origin>>)
    /\ UNCHANGED <<registry, manager, to_child, callerLocals, drainLocals, listener,
                   capacity, created, ghosts>>

(* ----------------------------- specification --------------------------- *)
\* notification_sender.py 104-106: only a reply (activation type 3) carries text
Responses(activation_type) == IF activation_type = 3 THEN Texts ELSE {""}

Configs(k) ==
    {[uid |-> u, action_callback |-> a, reply_callback |-> r, n |-> k] :
        u \in Uids, a \in BOOLEAN, r \in BOOLEAN}

Next ==
    \/ \E cfg \in Configs(created + 1) : CreateNotification(cfg)
    \/ CreateSetMap
    \/ ClearOldTest
    \/ ClearOldPop
    \/ CallerInMap
    \/ CallerPopMap
    \/ CallerInFifo
    \/ CallerRemove
    \/ CleanupClose
    \/ CleanupKill
    \/ CleanupJoin
    \/ DrainExit
    \/ DrainRecv
    \/ DrainPop
    \/ DrainCallbackReturns
    \/ DrainCallbackRaises
    \/ DrainPopMap
    \/ DrainInFifo
    \/ DrainRemove
    \/ ForwardDisplay
    \/ ForwardEOF
    \/ \E u \in Uids, t \in 1..3 : \E r \in Responses(t) : UserActivate(u, t, r)

Spec == Init /\ [][Next]_vars

(* ------------------------------ cancel() ------------------------------- *)
\* The cancel handle lives outside manager.py. Its contract: cancel() sends a
\* CancelRequest and removes the identifier from the registry; after the channel is
\* closed it does nothing. The removal is clear_notification_from_existence, run on
\* the caller thread.
Handles == displayed \cup {to_child[i].uid : i \in 1..Len(to_child)}

CancelCall(u) ==
    /\ cpc = "idle"
    /\ cancels < MaxCancels /\ Inputs < MaxInputs
    /\ u \in Handles
    /\ cancels' = cancels + 1
    /\ cerr' = "none"
    /\ IF parent_pipe_end = "open"
       THEN /\ to_child' = Append(to_child, [kind |-> "cancel", uid |-> u])
            /\ cpc' = "k_in_map" /\ c_op' = "cancel" /\ c_x' = u
            /\ UNCHANGED c_cfg
       ELSE UNCHANGED <<to_child, cpc, c_op, c_cfg, c_x>>
    /\ late' = late \cup {to_parent[i][4].ev : i \in {j \in 1..Len(to_parent) : to_parent[j][1] = u}}
    /\ UNCHANGED <<registry, manager, to_parent, drainLocals, listener, counters,
                   fired, evicted, cleanups, cancelled, cleaned>>

NextCancel ==
    \/ Next
    \/ \E u \in Uids : CancelCall(u)
    \/ ForwardCancel

SpecCancel == Init /\ [][NextCancel]_vars

(* -------------------- create_notification calls alone ------------------- *)
\* manager.py 59-82, listener_process.py 28-32: the caller submits notifications
\* and the listener displays them; the user never interacts with one
NextCreate ==
    \/ \E cfg \in Configs(created + 1) : CreateNotification(cfg)
    \/ CreateSetMap
    \/ ClearOldTest
    \/ ClearOldPop
    \/ CallerInMap
    \/ CallerPopMap
    \/ CallerInFifo
    \/ CallerRemove
    \/ ForwardDisplay

SpecCreate == Init /\ [][NextCreate]_vars

(* ------------------------------ scheduling ------------------------------ *)
\* manager.py 125-166: the steps of the drain thread. The thread is scheduled as
\* long as it can take a step, and a user callback that was called returns or
\* raises.
DrainThread ==
    \/ DrainExit
    \/ DrainRecv
    \/ DrainPop
    \/ DrainCallbackReturns
    \/ DrainCallbackRaises
    \/ DrainPopMap
    \/ DrainInFifo
    \/ DrainRemove

\* manager.py 106-113: a cleanup call that has closed the pipe goes on to kill and
\* to join
CleanupProceeds == CleanupKill \/ CleanupJoin

SpecLive == Spec /\ WF_vars(DrainThread) /\ WF_vars(CleanupProceeds)

(* ------------------ a listener that sends unexpected data --------------- *)
\* listener_process.py 39-40, manager.py 139-144: handle_activation sends whatever
\* tuple it is given and the drain thread unpacks whatever it receives; here the
\* child end sends a tuple whose event id is none of the two the sender builds
UnexpectedActivation(u) ==
    /\ callback_listener_process = "process"
    /\ lpc # "none"
    /\ parent_pipe_end = "open"
    /\ sent < MaxEvents /\ Inputs < MaxInputs
    /\ sent' = sent + 1
    /\ to_parent' = Append(to_parent,
                           <<u, "other", "",
                             [ev |-> sent + 1, activation_type |-> 0, response |-> ""]>>)
    /\ UNCHANGED <<registry, manager, to_child, callerLocals, drainLocals, listener,
                   capacity, created, ghosts>>

NextProtocol ==
    \/ Next
    \/ \E u \in Uids : UnexpectedActivation(u)

SpecProtocol == Init /\ [][NextProtocol]_vars

(* ----------------------------- properties ------------------------------- *)
HasAnyCallback(cfg) == cfg.action_callback \/ cfg.reply_callback
NoDuplicates(l) == \A i, j \in 1..Len(l) : l[i] = l[j] => i = j
\* neither thread is inside create_notification, cancel, cleanup or the handling
\* of an event
Quiescent == cpc = "idle" /\ dpc \in {"none", "poll", "exited", "dead"}

\* C1: in every sequence of create_notification calls, with any uids (reused ones
\* included) and any capacity, the registry map holds at most `capacity` entries
\* whenever a call returns.
C1_SizeWithinCapacity ==
    [][(c_op = "create" /\ cpc' = "idle" /\ cerr' = "none")
          => Len(NOTIFICATION_MAP') <= capacity]_vars

\* the last of three create_notification calls has returned after an eviction and
\* left the map full
C1_Witness ==
    /\ cpc = "idle" /\ cerr = "none"
    /\ created = MaxCreates
    /\ evicted # {}
    /\ Len(NOTIFICATION_MAP) = capacity

\* C2: the entry a create_notification call evicts is the oldest-inserted one that
\* is still pending (the first key of the map), and no callback of an evicted
\* config is ever invoked.
C2_FifoEviction ==
    /\ [][(c_op = "create" /\ cpc = "k_pop_map" /\ cpc' = "k_in_fifo")
             => c_x = NOTIFICATION_MAP[1].uid]_vars
    /\ [](\A i \in 1..Len(fired) : fired[i].n \notin evicted)

\* the drain thread has invoked the action callback of the event it is handling
ActionInvoked ==
    /\ dpc \in {"in_callback", "k_pop_map", "k_in_fifo", "k_remove"}
    /\ d_msg[2] = "action_button_clicked"

\* C3: an action event for a registered uid with an action callback invokes that
\* callback once, and when the handling of the event ends without an exception
\* (the callback returned, nothing raised) the uid is neither in
\* _NOTIFICATION_MAP nor in _FIFO_LIST.
C3_ActionOnceThenAbsent ==
    /\ [][(dpc = "pop" /\ d_msg[2] = "action_button_clicked" /\ dpc' # dpc
           /\ InMap(NOTIFICATION_MAP, d_msg[1])
           /\ MapGet(NOTIFICATION_MAP, d_msg[1]).action_callback)
             => /\ Len(fired') = Len(fired) + 1
                /\ fired'[Len(fired')].n = MapGet(NOTIFICATION_MAP, d_msg[1]).n
                /\ fired'[Len(fired')].kind = "action"]_vars
    /\ [](\A i, j \in 1..Len(fired) :
             fired[i].origin.ev = fired[j].origin.ev => i = j)
    /\ [][(ActionInvoked /\ dpc' = "poll")
             => /\ ~InMap(NOTIFICATION_MAP', d_msg[1])
                /\ ~InList(FIFO_LIST', d_msg[1])]_vars

C5_OnlyCallbacksRegistered ==
    /\ [](\A i \in 1..Len(NOTIFICATION_MAP) : HasAnyCallback(NOTIFICATION_MAP[i]))
    /\ [][(cpc = "idle" /\ c_op' = "create" /\ ~HasAnyCallback(c_cfg'))
             => UNCHANGED registry]_vars

\* C7: when neither thread is in the middle of an operation, the uids of _FIFO_LIST
\* are the keys of _NOTIFICATION_MAP and no uid is twice in _FIFO_LIST.
C7_LockStep ==
    Quiescent =>
        /\ ListSet(FIFO_LIST) = MapKeys(NOTIFICATION_MAP)
        /\ NoDuplicates(FIFO_LIST)

\* C8: no interleaving of a create_notification call with the drain thread's handling
\* of an event makes a pop or remove fail in either thread.
C8_NoRaceError ==
    /\ cerr \notin {"KeyError", "ValueError_remove", "IndexError"}
    /\ dexc \notin {"KeyError", "ValueError_remove"}

\* C6: after a cleanup call has returned, and until the next create_notification,
\* the registry is empty, the manager holds no pipe end, process or thread, neither
\* the listener nor the drain thread exists, and no exception was raised; this holds
\* after the first cleanup and after a second one in a row.
C6_CleanupIdempotent ==
    (cpc = "idle" /\ cleanups > 0) =>
        /\ NOTIFICATION_MAP = <<>> /\ FIFO_LIST = <<>>
        /\ parent_pipe_end = "None" /\ child_pipe_end = "None"
        /\ callback_listener_process = "None" /\ callback_executor_thread = "None"
        /\ dpc = "none" /\ lpc = "none"
        /\ cerr = "none"

\* cleanup has returned twice in a row after the manager had been started
C6_Witness ==
    cpc = "idle" /\ cleanups = 2 /\ created > 0

\* C9: a reply event whose uid is registered with a reply callback when the drain
\* thread pops it invokes one callback, the reply callback, with the text the user
\* typed; no event invokes a callback twice.
C9_ReplyText ==
    /\ [](\A i \in 1..Len(fired) :
             /\ fired[i].origin.activation_type = 3
                  => fired[i].kind = "reply" /\ fired[i].arg = fired[i].origin.response
             /\ \A j \in 1..Len(fired) : fired[i].origin.ev = fired[j].origin.ev => i = j)
    /\ [][(dpc = "pop" /\ d_msg[2] = "reply_button_clicked" /\ dpc' # dpc
           /\ InMap(NOTIFICATION_MAP, d_msg[1])
           /\ MapGet(NOTIFICATION_MAP, d_msg[1]).reply_callback)
             => /\ Len(fired') = Len(fired) + 1
                /\ fired'[Len(fired')].n = MapGet(NOTIFICATION_MAP, d_msg[1]).n]_vars

\* the reply callback of a config that also has an action callback is running with
\* the text "no", after an earlier reply delivered the text "yes"
C9_Witness ==
    /\ dpc = "in_callback"
    /\ d_msg[2] = "reply_button_clicked"
    /\ d_cfg.action_callback /\ d_cfg.reply_callback
    /\ Len(fired) = 2
    /\ fired[1].kind = "reply" /\ fired[1].arg = "yes"
    /\ fired[2].kind = "reply" /\ fired[2].arg = "no"

\* C10: callbacks are invoked in the order in which the listener sent their events,
\* and a callback is invoked only when the previous one is no longer running.
C10_CallbackOrder ==
    /\ \A i, j \in 1..Len(fired) : i < j => fired[i].origin.ev < fired[j].origin.ev
    /\ dpc = "in_callback" => d_msg[4] = fired[Len(fired)].origin

\* two events of which both led to a callback
C10_Witness ==
    Len(fired) >= 2

\* the drain thread takes the oldest event out of the open pipe
DrainReceives ==
    /\ dpc = "poll" /\ parent_pipe_end = "open" /\ parent_pipe_end' = "open"
    /\ to_parent # <<>> /\ to_parent' = Tail(to_parent)

\* C11: an activation event whose uid is not a key of _NOTIFICATION_MAP when the
\* drain thread receives it is dropped: no callback is invoked, no exception ends
\* the thread, _NOTIFICATION_MAP and _FIFO_LIST stay as they are, and the thread is
\* back at poll(), alive, for the next event.
C11_UnknownUidDropped ==
    [][(DrainReceives /\ Head(to_parent)[1] \notin MapKeys(NOTIFICATION_MAP))
          => /\ fired' = fired
             /\ dexc' = dexc
             /\ UNCHANGED registry
             /\ dpc' = "poll" /\ live_threads' = live_threads]_vars

\* two events were sent over a pipe that was never closed; one of them invoked a
\* callback, the other one was received and dropped, and the drain thread is alive
\* and polling
C11_Witness ==
    /\ sent = 2 /\ to_parent = <<>> /\ Len(fired) = 1
    /\ parent_pipe_end = "open" /\ cleaned = 0 /\ cleanups = 0
    /\ dpc = "poll" /\ dexc = "none" /\ live_threads = 1

\* the drain thread is about to pop the config of an event whose callback (the
\* action callback for an action event, the reply callback for a reply event) is
\* None
MissingCallback ==
    /\ dpc = "pop"
    /\ InMap(NOTIFICATION_MAP, d_msg[1])
    /\ \/ /\ d_msg[2] = "action_button_clicked"
          /\ ~MapGet(NOTIFICATION_MAP, d_msg[1]).action_callback
       \/ /\ d_msg[2] = "reply_button_clicked"
          /\ ~MapGet(NOTIFICATION_MAP, d_msg[1]).reply_callback

\* C12: an action (reply) event for a registered uid whose config has no action
\* (reply) callback ends the drain thread with a ValueError and invokes no callback,
\* not even the callback of the other kind.
C12_MissingCallbackFatal ==
    [][(MissingCallback /\ dpc' # dpc)
          => /\ dpc' = "dead" /\ dexc' = "ValueError_callback"
             /\ live_threads' = live_threads - 1
             /\ fired' = fired]_vars

\* the only event sent so far ended the drain thread with the ValueError for a
\* missing callback, and no callback was invoked
C12_Witness ==
    /\ dpc = "dead" /\ dexc = "ValueError_callback"
    /\ sent = 1 /\ fired = <<>> /\ live_threads = 0
    /\ callback_listener_process = "process"

\* the two event kinds of the channel's wire contract
KnownKinds == {"action_button_clicked", "reply_button_clicked"}

\* C13 as stated: every event the drain thread receives whose kind is none of the
\* two known ones ends the thread with the ValueError for an unknown event id and
\* invokes no callback, whether or not its uid is registered.
C13_UnknownKindFatal ==
    [][(DrainReceives /\ Head(to_parent)[2] \notin KnownKinds)
          => /\ dpc' = "dead" /\ dexc' = "ValueError_event_id"
             /\ fired' = fired]_vars

\* C13 as amended: such an event ends the drain thread with the ValueError for an
\* unknown event id, invoking no callback and leaving the registry as it is, when
\* its uid is a key of _NOTIFICATION_MAP; when it is not, the event is dropped and
\* the thread polls on.
C13_UnknownKindOfKnownUid ==
    [][(DrainReceives /\ Head(to_parent)[2] \notin KnownKinds)
          => /\ fired' = fired
             /\ UNCHANGED registry
             /\ IF Head(to_parent)[1] \in MapKeys(NOTIFICATION_MAP)
                THEN dpc' = "dead" /\ dexc' = "ValueError_event_id"
                     /\ live_threads' = live_threads - 1
                ELSE dpc' = "poll" /\ dexc' = dexc
                     /\ live_threads' = live_threads]_vars

\* an event of an unknown kind for a registered uid has ended the drain thread,
\* and its config is still registered
C13_Witness ==
    /\ dpc = "dead" /\ dexc = "ValueError_event_id"
    /\ fired = <<>>
    /\ NOTIFICATION_MAP # <<>>

\* C14: no listener process and no drain thread is alive before the first
\* create_notification call; that call starts one of each; at no time more than one
\* listener process or more than one drain thread is alive; and when a cleanup call
\* has returned none is alive.
C14_LazySingleStart ==
    /\ [](created = 0 => (live_processes = 0 /\ live_threads = 0))
    /\ [](live_processes <= 1 /\ live_threads <= 1)
    /\ [][(created = 0 /\ created' = 1)
             => /\ live_processes' = 1 /\ live_threads' = 1
                /\ callback_listener_process' = "process"
                /\ callback_executor_thread' = "thread"]_vars
    /\ []((cpc = "idle" /\ cleanups > 0) => (live_processes = 0 /\ live_threads = 0))

\* after a cleanup a further create_notification call has returned; one listener
\* process and one drain thread are alive
C14_Witness ==
    /\ cpc = "idle" /\ cleaned > 0 /\ created > cleaned
    /\ live_processes = 1 /\ live_threads = 1

\* C15: a cleanup call made on the caller thread returns, whatever the drain thread
\* was doing when it started, provided the thread is scheduled and user callbacks
\* return or raise; a drain thread that finds the pipe closed when it polls leaves
\* its loop without an exception.
C15_CleanupTerminates ==
    /\ (c_op = "cleanup") ~> (cpc = "idle")
    /\ [][(dpc = "poll" /\ parent_pipe_end # "open" /\ dpc' # dpc)
             => (dpc' = "exited" /\ dexc' = dexc)]_vars

\* cleanup has closed the pipe and killed the listener and waits in join() while
\* the drain thread is inside a user callback
C15_Witness ==
    /\ cpc = "join" /\ c_op = "cleanup"
    /\ dpc = "in_callback" /\ live_threads = 1

\* C16: the forwarding thread of a running listener takes the caller's messages in
\* send order; taking one leaves the thread receiving, a display request having
\* reached the backend; the thread ends only at end of stream, without an
\* exception.
C16_ForwardsEveryMessage ==
    /\ [][(lpc = "recv" /\ to_child # <<>> /\ to_child' = Tail(to_child)
           /\ callback_listener_process' = "process")
             => /\ lpc' = "recv"
                /\ Head(to_child).kind = "display"
                      => displayed' = displayed \cup {Head(to_child).uid}]_vars
    /\ [](lpc # "dead")

\* C17: while the manager is started and no cleanup is under way, a live drain
\* thread is consuming the channel whenever the listener process is running, also
\* after an event that ended in a fatal error or in a raising callback; without one
\* no later event can lead to its callback.
C17_DrainThreadKeptAlive ==
    (callback_listener_process = "process" /\ c_op # "cleanup")
        => (live_threads = 1 /\ ThreadAlive)

\* C18: when a create_notification call returns and no activation event was
\* handled meanwhile, the uid of its config is listed in _FIFO_LIST and is a key of
\* _NOTIFICATION_MAP whose value is that config, also for a uid that was already
\* pending in a full registry.
C18_CreateRegisters ==
    [][(c_op = "create" /\ cpc' = "idle" /\ cerr' = "none")
          => /\ InMap(NOTIFICATION_MAP', c_cfg.uid)
             /\ MapGet(NOTIFICATION_MAP', c_cfg.uid) = c_cfg
             /\ InList(FIFO_LIST', c_cfg.uid)]_vars

\* C19: once a cleanup call has returned, no callback is invoked for a config that
\* was submitted before it: every callback invoked belongs to a config created
\* after the last cleanup that returned.
C19_NoCallbackAfterCleanup ==
    [][Len(fired') > Len(fired) => fired'[Len(fired')].n > cleaned]_vars

\* after a cleanup one notification was submitted and is registered, and the drain
\* thread of the restarted manager is about to receive an event for another uid,
\* one that was displayed before the cleanup
C19_Witness ==
    /\ cleaned > 0 /\ created = cleaned + 1
    /\ dpc = "poll" /\ parent_pipe_end = "open" /\ to_parent # <<>>
    /\ Len(NOTIFICATION_MAP) = 1
    /\ NOTIFICATION_MAP[1].n = created
    /\ NOTIFICATION_MAP[1].uid # Head(to_parent)[1]

\* the first create_notification call after a cleanup is running
FirstCreateAfterCleanup ==
    c_op = "create" /\ cleaned > 0 /\ created = cleaned + 1

\* C20: a create_notification call made after cleanup has returned opens a new pipe,
\* starts a new listener process and a new drain thread polling that pipe, sends the
\* display request over it and registers the config; the call returns with the
\* config registered unless the drain thread has already taken an event for it; and
\* in a restarted manager an event for a registered uid with the matching callback
\* invokes that callback.
C20_Restartable ==
    /\ [][(cpc = "idle" /\ cleanups > 0 /\ created' = created + 1)
             => /\ parent_pipe_end' = "open" /\ child_pipe_end' = "open"
                /\ callback_listener_process' = "process" /\ live_processes' = 1
                /\ lpc' = "recv"
                /\ callback_executor_thread' = "thread" /\ live_threads' = 1
                /\ dpc' = "poll" /\ dexc' = "none"
                /\ to_parent' = <<>>
                /\ to_child' = <<[kind |-> "display", uid |-> c_cfg'.uid]>>
                /\ FIFO_LIST' = <<c_cfg'.uid>>]_vars
    /\ [][(FirstCreateAfterCleanup /\ cpc = "setmap" /\ cpc' # cpc)
             => NOTIFICATION_MAP' = <<c_cfg>>]_vars
    /\ [][(FirstCreateAfterCleanup /\ cpc' = "idle")
             => /\ cerr' = "none"
                /\ \/ NOTIFICATION_MAP' = <<c_cfg>>
                   \/ dpc' # "poll"
                   \/ \E i \in 1..Len(fired') : fired'[i].n = created]_vars
    /\ [][(cleaned > 0 /\ dpc = "pop" /\ dpc' # dpc
           /\ InMap(NOTIFICATION_MAP, d_msg[1])
           /\ \/ /\ d_msg[2] = "action_button_clicked"
                 /\ MapGet(NOTIFICATION_MAP, d_msg[1]).action_callback
              \/ /\ d_msg[2] = "reply_button_clicked"
                 /\ MapGet(NOTIFICATION_MAP, d_msg[1]).reply_callback)
             => /\ Len(fired') = Len(fired) + 1
                /\ fired'[Len(fired')].n = MapGet(NOTIFICATION_MAP, d_msg[1]).n
                /\ fired'[Len(fired')].n > cleaned
                /\ fired'[Len(fired')].kind =
                      (IF d_msg[2] = "action_button_clicked" THEN "action" ELSE "reply")
                /\ dpc' = "in_callback"]_vars

\* a callback of a notification submitted after a cleanup is running in the drain
\* thread of the restarted manager
C20_Witness ==
    /\ cleaned > 0
    /\ dpc = "in_callback" /\ d_cfg.n > cleaned
    /\ fired[Len(fired)].n = d_cfg.n
    /\ live_processes = 1 /\ live_threads = 1

====
